---- MODULE Spec2Model ----
(***************************************************************************)
(* Token cache / login coordination of the OpenSubtitles proxies:          *)
(*   "node"    src/opensubtitles-proxy-server.mjs  (Node HTTP server)      *)
(*   "tronapp" src/unnamed/part_000                (Cloudflare worker)     *)
(*   "oswork"  src/opensubtitles-proxy.worker.js   (Cloudflare worker)     *)
(* One behaviour of the model is one run of one of the three programs:     *)
(* Init picks the deployed program (variant) and its credentials.          *)
(* JavaScript runs handlers to their next await without interleaving, so   *)
(* each action is one such run-to-suspension step (a request arriving, a   *)
(* timer firing, an upstream reply arriving) including the continuations   *)
(* of every promise it settles.                                            *)
(***************************************************************************)
EXTENDS Integers, Sequences, FiniteSets

\* ------------------------------------------------------------- bounds
NumReqs == 2          \* client download requests in one run
MaxTicks == 2         \* clock advances in one run
StartMs == 50000000   \* Date.now() when the process starts

\* ---------------------------------------------------- program constants
LOGIN_SPACING_MS == 1100       \* server.mjs:114
TOKEN_MAX_AGE_MS == 28800000   \* server.mjs:106   8 * 60 * 60 * 1000
TRON_CACHE_MS == 600000        \* part_000:81      10 * 60_000
TRON_MARGIN_MS == 60000        \* part_000:61
OS_CACHE_MS == 43200000        \* worker.js:73     12 * 60 * 60 * 1000
OS_MARGIN_MS == 60000          \* worker.js:48

Reqs == 1..NumReqs
Variants == {"node", "tronapp", "oswork"}
NoToken == 0          \* null

VARIABLES
  variant,          \* which program runs
  hasCreds,         \* OS_USERNAME and OS_PASSWORD are both configured
  now,              \* Date.now()
  ticks,            \* clock advances so far
  cachedToken,      \* NoToken, or k: the token returned by login number k
  tokenSetAtMs,     \* node
  loginInFlight,    \* node: 0 (null), or the login operation that is pending
  lastLoginAtMs,    \* node
  cachedTokenExpMs, \* tronapp
  tokenExpMs,       \* oswork
  logins,           \* every login operation started so far, in order: its
                    \* phase, reply, and in the Node server its timer and the
                    \* time its /login call went out
  pc,               \* per request: where its handler is suspended
  kind,             \* per request: the route that serves it
  token,            \* per request: the handler's local token
  tokSrc,           \* per request: how the local token was obtained
  joined,           \* per request: the login operation it awaits / awaited
  loginErr,         \* per request: the login whose error was thrown to it
  dlCalls,          \* per request: /download calls issued for it
  first401,         \* per request: the first /download call was answered 401
  settledAt401,     \* per request: the logins already settled at that moment
  loginNow,         \* per request (workers): `now` of the running login()
  resp,             \* per request: the response sent to the client
  acquiredAt,       \* when the cached token was received from /login
  aborted,          \* per request: the client has closed the connection
  wellFormed,       \* per request: its file_id / query parameter is usable
  upCalls           \* per request: upstream calls its handler has awaited

vars == <<variant, hasCreds, now, ticks, cachedToken, tokenSetAtMs, loginInFlight,
          lastLoginAtMs, cachedTokenExpMs, tokenExpMs, logins, pc, kind, token,
          tokSrc, joined, loginErr, dlCalls, first401, settledAt401, loginNow, resp,
          acquiredAt, aborted, wellFormed, upCalls>>

nodeState == <<tokenSetAtMs, loginInFlight, lastLoginAtMs>>
workerState == <<cachedTokenExpMs, tokenExpMs>>
envState == <<variant, hasCreds, now, ticks>>
clientState == <<aborted, wellFormed>>

NoResp == [status |-> 0, body |-> "none"]

Init ==
  /\ variant \in Variants
  /\ hasCreds \in BOOLEAN
  /\ now = StartMs
  /\ ticks = 0
  /\ cachedToken = NoToken
  /\ tokenSetAtMs = 0
  /\ loginInFlight = 0
  /\ lastLoginAtMs = 0
  /\ cachedTokenExpMs = 0
  /\ tokenExpMs = 0
  /\ logins = <<>>
  /\ pc = [r \in Reqs |-> "idle"]
  /\ kind = [r \in Reqs |-> "none"]
  /\ token = [r \in Reqs |-> NoToken]
  /\ tokSrc = [r \in Reqs |-> "none"]
  /\ joined = [r \in Reqs |-> 0]
  /\ loginErr = [r \in Reqs |-> 0]
  /\ dlCalls = [r \in Reqs |-> 0]
  /\ first401 = [r \in Reqs |-> FALSE]
  /\ settledAt401 = [r \in Reqs |-> {}]
  /\ loginNow = [r \in Reqs |-> 0]
  /\ resp = [r \in Reqs |-> NoResp]
  /\ acquiredAt = 0
  /\ aborted = [r \in Reqs |-> FALSE]
  /\ wellFormed = [r \in Reqs |-> TRUE]
  /\ upCalls = [r \in Reqs |-> 0]

\* ---------------------------------------------------------------- helpers
LoginOutcomes == {"ok", "rejected", "notoken", "neterr"}
DownloadOutcomes == {"link", "nolink", "unauth", "error", "neterr"}
FileOutcomes == {"ok", "error", "neterr"}
SearchOutcomes == {"ok", "error", "neterr"}

Settled(k) == logins[k].phase \in {"ok", "failed"}
SettledLogins == {k \in 1..Len(logins) : Settled(k)}
Outstanding == {k \in 1..Len(logins) : logins[k].phase = "fetch"}

\* status of an upstream reply
UpStatus(outcome) ==
  CASE outcome = "unauth" -> 401
    [] outcome = "error" -> 429
    [] OTHER -> 200

\* request r reaches its handler; requests are numbered in order of arrival
Arrives(r) == pc[r] = "idle" /\ \A q \in Reqs : q < r => pc[q] # "idle"

\* the handler answers request r and returns: its count of upstream calls is
\* gone with it
Respond(r, status, body) ==
  /\ pc' = [pc EXCEPT ![r] = "done"]
  /\ resp' = [resp EXCEPT ![r] = [status |-> status, body |-> body]]
  /\ upCalls' = [upCalls EXCEPT ![r] = 0]

\* the clock advances between events: in the Node server by half the login
\* spacing or by the maximal token age, in the tronapp worker by half the
\* life of a cached token, in the OpenSubtitles worker by half the time a
\* cached token is reused (two steps reach the boundary exactly)
TickSteps ==
  CASE variant = "node" -> {LOGIN_SPACING_MS \div 2, TOKEN_MAX_AGE_MS}
    [] variant = "tronapp" -> {TRON_CACHE_MS \div 2}
    [] OTHER -> {(OS_CACHE_MS - OS_MARGIN_MS) \div 2}

Tick(d) ==
  /\ ticks < MaxTicks
  /\ now' = now + d
  /\ ticks' = ticks + 1
  /\ UNCHANGED <<variant, hasCreds, cachedToken, nodeState, workerState, logins, pc,
                 kind, token, tokSrc, joined, loginErr, dlCalls, first401,
                 settledAt401, loginNow, resp, acquiredAt, clientState, upCalls>>

\* =================================================================== node
\* mutant of nodeFresh: the cache is never consulted
nodeFresh_ageless(ct, ts) == ct # NoToken
nodeFresh_never(ct, ts) == FALSE

\* osLogin, line 105-106: the cached token is recent enough to be reused
nodeFresh(ct, ts) == ct # NoToken /\ now - ts < TOKEN_MAX_AGE_MS

\* mutant of joinable: the pending login is never joined
joinable_never(lif) == FALSE

\* osLogin, line 108: a login is pending
joinable(lif) == lif # 0

\* mutant of spacingWait: the login never sleeps
spacingWait_none(delta) == 0

\* osLogin, line 112-114: how long the new login sleeps before calling /login
spacingWait(delta) == IF delta < LOGIN_SPACING_MS THEN LOGIN_SPACING_MS - delta ELSE 0

\* mutant of stampLogin: the attempt is not recorded
stampLogin_skipped(prev) == prev

\* osLogin, line 115: the value written to lastLoginAtMs when /login is called
stampLogin(prev) == now

\* mutant of loginOk: the token of the reply is not checked
loginOk_unchecked(outcome) == outcome \in {"ok", "notoken"}

\* osLogin, line 124-132: the reply carries a usable token
loginOk(outcome) == outcome = "ok"

\* mutant of cleared: loginInFlight is reset by .then, not by .finally
cleared_onSuccess(lif, ok) == IF ok THEN 0 ELSE lif

\* osLogin, line 136-138: loginInFlight once the login operation has settled
cleared(lif, ok) == 0

\* mutant of invalidated: the cache is kept after a 401
invalidated_kept(ct, ts) == <<ct, ts>>

\* handleDownload, line 188-189: <<cachedToken, tokenSetAtMs>> after a 401
invalidated(ct, ts) == <<NoToken, 0>>

\* request r starts to await one more upstream call
Awaits(r) == upCalls' = [upCalls EXCEPT ![r] = @ + 1]

\* handleDownload, line 180-184 / 191-195: POST /download with the token
IssueDownload(r, t, src, stage) ==
  /\ pc' = [pc EXCEPT ![r] = stage]
  /\ token' = [token EXCEPT ![r] = t]
  /\ tokSrc' = [tokSrc EXCEPT ![r] = src]
  /\ dlCalls' = [dlCalls EXCEPT ![r] = @ + 1]
  /\ upCalls' = [upCalls EXCEPT ![r] = @ + 1]

\* line 100: !OS_USERNAME || !OS_PASSWORD
credsMissing_never(hc) == FALSE
credsMissing(hc) == ~hc

\* osLogin called by request r, run up to its first suspension.  ct, ts are
\* cachedToken and tokenSetAtMs as the caller left them; stage is the
\* /download call that follows ("download" or "retry").
osLogin(r, ct, ts, stage) ==
  /\ cachedToken' = ct
  /\ tokenSetAtMs' = ts
  /\ IF credsMissing(hasCreds)
       THEN \* line 100-102: throws, caught by the server (line 240-243)
            /\ Respond(r, 500, "error")
            /\ UNCHANGED <<loginInFlight, lastLoginAtMs, logins, token, tokSrc,
                           joined, loginErr, dlCalls>>
     ELSE IF nodeFresh(ct, ts)
       THEN \* line 106
            /\ IssueDownload(r, ct, "cache", stage)
            /\ UNCHANGED <<loginInFlight, lastLoginAtMs, logins, joined,
                           loginErr, resp>>
     ELSE IF joinable(loginInFlight)
       THEN \* line 108
            /\ pc' = [pc EXCEPT ![r] = "awaitLogin"]
            /\ joined' = [joined EXCEPT ![r] = loginInFlight]
            /\ Awaits(r)
            /\ UNCHANGED <<loginInFlight, lastLoginAtMs, logins, token, tokSrc,
                           loginErr, dlCalls, resp>>
     ELSE \* line 110-140: a new login operation
          LET k == Len(logins) + 1
              w == spacingWait(now - lastLoginAtMs)
          IN /\ IF w > 0
                  THEN /\ logins' = Append(logins,
                            [phase |-> "spacing", wakeAt |-> now + w,
                             callAt |-> 0, result |-> "pending"])
                       /\ UNCHANGED lastLoginAtMs
                  ELSE /\ logins' = Append(logins,
                            [phase |-> "fetch", wakeAt |-> 0,
                             callAt |-> now, result |-> "pending"])
                       /\ lastLoginAtMs' = stampLogin(lastLoginAtMs)
             /\ loginInFlight' = k
             /\ pc' = [pc EXCEPT ![r] = "awaitLogin"]
             /\ joined' = [joined EXCEPT ![r] = k]
             /\ Awaits(r)
             /\ UNCHANGED <<token, tokSrc, loginErr, dlCalls, resp>>

\* POST /os/download: handleDownload from the end of readBody (line 166) to
\* its first suspension
NodeRequest(r, valid) ==
  /\ variant = "node"
  /\ Arrives(r)
  /\ kind' = [kind EXCEPT ![r] = "download"]
  /\ IF ~valid
       THEN \* line 173-175
            /\ Respond(r, 400, "error")
            /\ UNCHANGED <<cachedToken, nodeState, logins, token, tokSrc, joined,
                           loginErr, dlCalls>>
       ELSE osLogin(r, cachedToken, tokenSetAtMs, "download")
  /\ wellFormed' = [wellFormed EXCEPT ![r] = valid]
  /\ UNCHANGED <<envState, workerState, first401, settledAt401, loginNow,
                 acquiredAt, aborted>>

\* the spacing timer of login operation k fires (line 114-122)
SpacingTimer(k) ==
  /\ variant = "node"
  /\ k \in 1..Len(logins)
  /\ logins[k].phase = "spacing"
  /\ now >= logins[k].wakeAt
  /\ logins' = [logins EXCEPT ![k].phase = "fetch", ![k].wakeAt = 0,
                                 ![k].callAt = now]
  /\ lastLoginAtMs' = stampLogin(lastLoginAtMs)
  /\ UNCHANGED <<envState, cachedToken, tokenSetAtMs, loginInFlight, workerState,
                 pc, kind, token, tokSrc, joined, loginErr, dlCalls, first401,
                 settledAt401, loginNow, resp, acquiredAt, clientState, upCalls>>

\* the /login call of operation k is answered (line 118-138); the operation
\* settles and every handler awaiting it continues (line 140, 108, 177, 190)
LoginReply(k, outcome) ==
  /\ variant = "node"
  /\ k \in 1..Len(logins)
  /\ logins[k].phase = "fetch"
  /\ LET ok == loginOk(outcome)
         W == {r \in Reqs : pc[r] = "awaitLogin" /\ joined[r] = k}
         stage(r) == IF first401[r] THEN "retry" ELSE "download"
     IN /\ logins' = [logins EXCEPT ![k].phase = IF ok THEN "ok" ELSE "failed",
                                    ![k].result = outcome]
        /\ cachedToken' = IF ok THEN k ELSE cachedToken
        /\ tokenSetAtMs' = IF ok THEN now ELSE tokenSetAtMs
        /\ loginInFlight' = cleared(loginInFlight, ok)
        /\ pc' = [r \in Reqs |-> IF r \in W THEN (IF ok THEN stage(r) ELSE "done")
                                 ELSE pc[r]]
        /\ token' = [r \in Reqs |-> IF r \in W /\ ok THEN k ELSE token[r]]
        /\ tokSrc' = [r \in Reqs |-> IF r \in W /\ ok THEN "login" ELSE tokSrc[r]]
        /\ dlCalls' = [r \in Reqs |-> IF r \in W /\ ok THEN dlCalls[r] + 1
                                      ELSE dlCalls[r]]
        /\ upCalls' = [r \in Reqs |-> IF r \notin W THEN upCalls[r]
                                      ELSE IF ok THEN upCalls[r] + 1 ELSE 0]
        /\ acquiredAt' = IF ok THEN now ELSE acquiredAt
        /\ loginErr' = [r \in Reqs |-> IF r \in W /\ ~ok THEN k ELSE loginErr[r]]
        /\ resp' = [r \in Reqs |-> IF r \in W /\ ~ok
                                     THEN [status |-> 500, body |-> "error"]
                                     ELSE resp[r]]
  /\ UNCHANGED <<envState, lastLoginAtMs, workerState, kind, joined, first401,
                 settledAt401, loginNow, clientState>>

\* line 187: only the answer to the first /download call is tested for 401
retryable_always(stage) == TRUE
retryable(stage) == stage = "download"

\* a /download call of request r is answered (line 184-204)
NodeDownloadReply(r, outcome) ==
  /\ variant = "node"
  /\ pc[r] \in {"download", "retry"}
  /\ IF outcome = "neterr"
       THEN \* fetch throws, caught by the server (line 240-243)
            /\ Respond(r, 500, "error")
            /\ UNCHANGED <<cachedToken, nodeState, logins, token, tokSrc, joined,
                           loginErr, dlCalls, first401, settledAt401, acquiredAt>>
     ELSE IF outcome = "unauth" /\ retryable(pc[r])
       THEN \* line 187-190
            /\ first401' = [first401 EXCEPT ![r] = TRUE]
            /\ settledAt401' = [settledAt401 EXCEPT ![r] = SettledLogins]
            /\ osLogin(r, invalidated(cachedToken, tokenSetAtMs)[1],
                          invalidated(cachedToken, tokenSetAtMs)[2], "retry")
            /\ acquiredAt' = IF cachedToken' = NoToken THEN 0 ELSE acquiredAt
     ELSE IF outcome # "link"
       THEN \* line 198-201
            /\ Respond(r, UpStatus(outcome), "error")
            /\ UNCHANGED <<cachedToken, nodeState, logins, token, tokSrc, joined,
                           loginErr, dlCalls, first401, settledAt401, acquiredAt>>
     ELSE \* line 204-205
          /\ pc' = [pc EXCEPT ![r] = "file"]
          /\ Awaits(r)
          /\ UNCHANGED <<cachedToken, nodeState, logins, token, tokSrc, joined,
                         loginErr, dlCalls, first401, settledAt401, resp,
                         acquiredAt>>
  /\ UNCHANGED <<envState, workerState, kind, loginNow, clientState>>

\* the fetch of the signed link is answered (line 205-213)
NodeFileReply(r, outcome) ==
  /\ variant = "node"
  /\ pc[r] = "file"
  /\ CASE outcome = "ok" -> Respond(r, 200, "text")
       [] outcome = "error" -> Respond(r, 404, "error")
       [] OTHER -> Respond(r, 500, "error")
  /\ UNCHANGED <<envState, cachedToken, nodeState, workerState, logins, kind,
                 token, tokSrc, joined, loginErr, dlCalls, first401, settledAt401,
                 loginNow, acquiredAt, clientState>>

\* what becomes of loginInFlight when the connection of a caller closes: the
\* operation (line 110-138) holds no reference to the request and the server
\* registers no 'close' or 'aborted' listener, so nothing
onClose_cancels(lif) == 0
onClose(lif) == lif

\* the client of request r closes its connection while the handler awaits
\* osLogin (line 177, line 190); the handler is not told and runs on
Abort(r) ==
  /\ variant = "node"
  /\ pc[r] = "awaitLogin"
  /\ ~aborted[r]
  /\ aborted' = [aborted EXCEPT ![r] = TRUE]
  /\ loginInFlight' = onClose(loginInFlight)
  /\ UNCHANGED <<envState, cachedToken, tokenSetAtMs, lastLoginAtMs, workerState,
                 logins, pc, kind, token, tokSrc, joined, loginErr, dlCalls,
                 first401, settledAt401, loginNow, resp, acquiredAt, wellFormed,
                 upCalls>>

NodeNext ==
  \/ \E r \in Reqs, valid \in BOOLEAN : NodeRequest(r, valid)
  \/ \E k \in 1..Len(logins) : SpacingTimer(k)
  \/ \E k \in 1..Len(logins), o \in LoginOutcomes : LoginReply(k, o)
  \/ \E r \in Reqs, o \in DownloadOutcomes : NodeDownloadReply(r, o)
  \/ \E r \in Reqs, o \in FileOutcomes : NodeFileReply(r, o)

\* ================================================================ tronapp
\* login, line 60-61: the cached token is reused
tronFresh(ct, exp) == ct # NoToken /\ exp - now > TRON_MARGIN_MS

\* getEnvOrThrow (line 36-42) throws for OS_USERNAME or OS_PASSWORD
envMissing(hc) == ~hc

\* login(env) called by request r, run up to its first suspension
tronLogin(r) ==
  IF tronFresh(cachedToken, cachedTokenExpMs)
    THEN \* line 61
         /\ IssueDownload(r, cachedToken, "cache", "download")
         /\ UNCHANGED <<logins, joined, loginNow, resp>>
  ELSE IF envMissing(hasCreds)
    THEN \* line 63-64: getEnvOrThrow throws, caught by fetch (line 205-207)
         /\ Respond(r, 500, "error")
         /\ UNCHANGED <<logins, joined, loginNow, token, tokSrc, dlCalls>>
  ELSE \* line 66-70
       /\ logins' = Append(logins, [phase |-> "fetch", wakeAt |-> 0,
                                    callAt |-> 0, result |-> "pending"])
       /\ joined' = [joined EXCEPT ![r] = Len(logins) + 1]
       /\ loginNow' = [loginNow EXCEPT ![r] = now]
       /\ pc' = [pc EXCEPT ![r] = "login"]
       /\ Awaits(r)
       /\ UNCHANGED <<token, tokSrc, dlCalls, resp>>

\* POST /download (handleDownload) or GET /download-file (handleDownloadFile)
\* up to the first suspension after the request is parsed
TronRequest(r, route, valid) ==
  /\ variant = "tronapp"
  /\ Arrives(r)
  /\ kind' = [kind EXCEPT ![r] = route]
  /\ IF ~valid
       THEN \* line 110, line 149
            /\ Respond(r, 400, "error")
            /\ UNCHANGED <<logins, joined, loginNow, token, tokSrc, dlCalls>>
       ELSE tronLogin(r)
  /\ wellFormed' = [wellFormed EXCEPT ![r] = valid]
  /\ UNCHANGED <<envState, cachedToken, nodeState, workerState, loginErr, first401,
                 settledAt401, acquiredAt, aborted>>

\* the /login call of request r is answered (line 72-83)
TronLoginReply(r, outcome) ==
  /\ variant = "tronapp"
  /\ pc[r] = "login"
  /\ IF outcome = "ok"
       THEN /\ logins' = [logins EXCEPT ![joined[r]].phase = "ok",
                                        ![joined[r]].result = outcome]
            /\ cachedToken' = joined[r]
            /\ cachedTokenExpMs' = loginNow[r] + TRON_CACHE_MS
            /\ acquiredAt' = now
            /\ IssueDownload(r, joined[r], "login", "download")
            /\ UNCHANGED <<loginErr, resp>>
       ELSE \* line 76-78, or fetch throws; caught by fetch (line 205-207)
            /\ logins' = [logins EXCEPT ![joined[r]].phase = "failed",
                                        ![joined[r]].result = outcome]
            /\ loginErr' = [loginErr EXCEPT ![r] = joined[r]]
            /\ Respond(r, 500, "error")
            /\ UNCHANGED <<cachedToken, cachedTokenExpMs, token, tokSrc, dlCalls, acquiredAt>>
  /\ loginNow' = [loginNow EXCEPT ![r] = 0]
  /\ UNCHANGED <<envState, nodeState, tokenExpMs, kind, joined, first401,
                 settledAt401, clientState>>

\* the /download call of request r is answered (line 126-129, line 162-173)
TronDownloadReply(r, outcome) ==
  /\ variant = "tronapp"
  /\ pc[r] = "download"
  /\ first401' = [first401 EXCEPT ![r] = (outcome = "unauth")]
  /\ IF outcome = "neterr"
       THEN Respond(r, 500, "error")
     ELSE IF kind[r] = "download"
       THEN \* line 126-129: the upstream body and status, passed through
            Respond(r, UpStatus(outcome), "data")
     ELSE IF outcome # "link"
       THEN \* line 166-171
            Respond(r, UpStatus(outcome), "error")
     ELSE \* line 173
          /\ pc' = [pc EXCEPT ![r] = "file"]
          /\ Awaits(r)
          /\ UNCHANGED resp
  /\ UNCHANGED <<envState, cachedToken, nodeState, workerState, logins, kind,
                 token, tokSrc, joined, loginErr, dlCalls, settledAt401,
                 loginNow, acquiredAt, clientState>>

\* the fetch of the signed link is answered (line 173-183)
TronFileReply(r, outcome) ==
  /\ variant = "tronapp"
  /\ pc[r] = "file"
  /\ CASE outcome = "ok" -> Respond(r, 200, "stream")
       [] outcome = "error" -> Respond(r, 404, "stream")
       [] OTHER -> Respond(r, 500, "error")
  /\ UNCHANGED <<envState, cachedToken, nodeState, workerState, logins, kind,
                 token, tokSrc, joined, loginErr, dlCalls, first401, settledAt401,
                 loginNow, acquiredAt, clientState>>

TronNext ==
  \/ \E r \in Reqs, route \in {"download", "download-file"}, valid \in BOOLEAN :
        TronRequest(r, route, valid)
  \/ \E r \in Reqs, o \in LoginOutcomes : TronLoginReply(r, o)
  \/ \E r \in Reqs, o \in DownloadOutcomes : TronDownloadReply(r, o)
  \/ \E r \in Reqs, o \in FileOutcomes : TronFileReply(r, o)

\* ================================================================= oswork
\* ensureToken, line 47-48: the cached token is reused
osFresh(ct, exp) == ct # NoToken /\ exp - now > OS_MARGIN_MS

\* ensureToken(env) called by request r, run up to its first suspension
ensureToken(r) ==
  IF osFresh(cachedToken, tokenExpMs)
    THEN \* line 48
         /\ IssueDownload(r, cachedToken, "cache", "download")
         /\ UNCHANGED <<logins, joined, loginNow>>
  ELSE IF ~hasCreds
    THEN \* line 50: returns null, the download goes out without a token
         /\ IssueDownload(r, NoToken, "none", "download")
         /\ UNCHANGED <<logins, joined, loginNow>>
  ELSE \* line 52-64
       /\ logins' = Append(logins, [phase |-> "fetch", wakeAt |-> 0,
                                    callAt |-> 0, result |-> "pending"])
       /\ joined' = [joined EXCEPT ![r] = Len(logins) + 1]
       /\ loginNow' = [loginNow EXCEPT ![r] = now]
       /\ pc' = [pc EXCEPT ![r] = "login"]
       /\ Awaits(r)
       /\ UNCHANGED <<token, tokSrc, dlCalls>>

\* GET /download-file (line 126-131) up to its first suspension
OsRequest(r, valid) ==
  /\ variant = "oswork"
  /\ Arrives(r)
  /\ kind' = [kind EXCEPT ![r] = "download-file"]
  /\ IF ~valid
       THEN \* line 129
            /\ Respond(r, 400, "message")
            /\ UNCHANGED <<logins, joined, loginNow, token, tokSrc, dlCalls>>
       ELSE /\ ensureToken(r)
            /\ UNCHANGED resp
  /\ wellFormed' = [wellFormed EXCEPT ![r] = valid]
  /\ UNCHANGED <<envState, cachedToken, nodeState, workerState, loginErr, first401,
                 settledAt401, acquiredAt, aborted>>

\* the /login call of request r is answered (line 66-75, 131-143)
OsLoginReply(r, outcome) ==
  /\ variant = "oswork"
  /\ pc[r] = "login"
  /\ IF outcome \in {"ok", "notoken"}
       THEN \* res.ok: line 71-74
            LET t == IF outcome = "ok" THEN joined[r] ELSE NoToken
            IN /\ logins' = [logins EXCEPT ![joined[r]].phase = "ok",
                                           ![joined[r]].result = outcome]
               /\ cachedToken' = t
               /\ tokenExpMs' = loginNow[r] + OS_CACHE_MS
               /\ acquiredAt' = IF outcome = "ok" THEN now ELSE acquiredAt
               /\ IssueDownload(r, t, IF t = NoToken THEN "none" ELSE "login",
                                "download")
               /\ UNCHANGED <<loginErr, resp>>
       ELSE \* line 67-69, or fetch throws; caught at line 172-174
            /\ logins' = [logins EXCEPT ![joined[r]].phase = "failed",
                                        ![joined[r]].result = outcome]
            /\ loginErr' = [loginErr EXCEPT ![r] = joined[r]]
            /\ Respond(r, 500, "message")
            /\ UNCHANGED <<cachedToken, tokenExpMs, token, tokSrc, dlCalls, acquiredAt>>
  /\ loginNow' = [loginNow EXCEPT ![r] = 0]
  /\ UNCHANGED <<envState, nodeState, cachedTokenExpMs, kind, joined, first401,
                 settledAt401, clientState>>

\* the /download call of request r is answered (line 145-155)
OsDownloadReply(r, outcome) ==
  /\ variant = "oswork"
  /\ pc[r] = "download"
  /\ first401' = [first401 EXCEPT ![r] = (outcome = "unauth")]
  /\ CASE outcome = "neterr" -> Respond(r, 500, "message")
       [] outcome \in {"unauth", "error"} -> Respond(r, UpStatus(outcome), "message")
       [] outcome = "nolink" -> Respond(r, 502, "message")
       [] OTHER -> /\ pc' = [pc EXCEPT ![r] = "file"]
                   /\ Awaits(r)
                   /\ UNCHANGED resp
  /\ UNCHANGED <<envState, cachedToken, nodeState, workerState, logins, kind,
                 token, tokSrc, joined, loginErr, dlCalls, settledAt401,
                 loginNow, acquiredAt, clientState>>

\* the fetch of the signed link is answered (line 155-168)
OsFileReply(r, outcome) ==
  /\ variant = "oswork"
  /\ pc[r] = "file"
  /\ CASE outcome = "ok" -> Respond(r, 200, "stream")
       [] outcome = "error" -> Respond(r, 404, "message")
       [] OTHER -> Respond(r, 500, "message")
  /\ UNCHANGED <<envState, cachedToken, nodeState, workerState, logins, kind,
                 token, tokSrc, joined, loginErr, dlCalls, first401, settledAt401,
                 loginNow, acquiredAt, clientState>>

OsNext ==
  \/ \E r \in Reqs, valid \in BOOLEAN : OsRequest(r, valid)
  \/ \E r \in Reqs, o \in LoginOutcomes : OsLoginReply(r, o)
  \/ \E r \in Reqs, o \in DownloadOutcomes : OsDownloadReply(r, o)
  \/ \E r \in Reqs, o \in FileOutcomes : OsFileReply(r, o)

Next ==
  \/ \E d \in TickSteps : Tick(d)
  \/ NodeNext
  \/ TronNext
  \/ OsNext

Spec == Init /\ [][Next]_vars

\* ================================================================ routes
\* the routes that need no token

\* what a route that needs no token leaves alone
tokenFrame ==
  UNCHANGED <<envState, cachedToken, nodeState, workerState, logins, token,
              tokSrc, joined, loginErr, dlCalls, first401, settledAt401,
              loginNow, acquiredAt, aborted>>

\* request r of the given route awaits its only upstream call
Forward(r, route, stage) ==
  /\ kind' = [kind EXCEPT ![r] = route]
  /\ pc' = [pc EXCEPT ![r] = stage]
  /\ Awaits(r)
  /\ UNCHANGED resp

\* GET /os/subtitles: handleSubtitles up to the /subtitles call (line 144-148)
NodeSubtitles_withLogin(r) ==
  /\ variant = "node"
  /\ Arrives(r)
  /\ kind' = [kind EXCEPT ![r] = "search"]
  /\ osLogin(r, cachedToken, tokenSetAtMs, "download")
  /\ UNCHANGED <<envState, workerState, first401, settledAt401, loginNow,
                 acquiredAt, clientState>>

NodeSubtitles(r) ==
  /\ variant = "node"
  /\ Arrives(r)
  /\ Forward(r, "search", "search")
  /\ UNCHANGED wellFormed
  /\ tokenFrame

\* the /subtitles call is answered (line 150-162)
NodeSubtitlesReply(r, outcome) ==
  /\ variant = "node"
  /\ pc[r] = "search"
  /\ CASE outcome = "ok" -> Respond(r, 200, "data")
       [] outcome = "error" -> Respond(r, UpStatus(outcome), "error")
       [] OTHER -> Respond(r, 500, "error")
  /\ UNCHANGED <<kind, wellFormed>>
  /\ tokenFrame

\* any other path or method (line 237)
NodeNotFound(r) ==
  /\ variant = "node"
  /\ Arrives(r)
  /\ kind' = [kind EXCEPT ![r] = "other"]
  /\ Respond(r, 404, "error")
  /\ UNCHANGED wellFormed
  /\ tokenFrame

\* GET /search: handleSearch up to the /subtitles call (line 86-97); valid
\* says that the trimmed query is not empty
TronSearch(r, valid) ==
  /\ variant = "tronapp"
  /\ Arrives(r)
  /\ wellFormed' = [wellFormed EXCEPT ![r] = valid]
  /\ IF ~valid
       THEN \* line 91
            /\ kind' = [kind EXCEPT ![r] = "search"]
            /\ Respond(r, 400, "error")
       ELSE Forward(r, "search", "search")
  /\ tokenFrame

\* the /subtitles call is answered (line 98-101): the upstream body and
\* status, passed through
TronSearchReply(r, outcome) ==
  /\ variant = "tronapp"
  /\ pc[r] = "search"
  /\ IF outcome = "neterr"
       THEN Respond(r, 500, "error")
       ELSE Respond(r, UpStatus(outcome), "data")
  /\ UNCHANGED <<kind, wellFormed>>
  /\ tokenFrame

\* GET /download-file?url=... (line 139-147): the pre-signed link is fetched
\* without a token; TronFileReply answers
TronLegacy(r) ==
  /\ variant = "tronapp"
  /\ Arrives(r)
  /\ Forward(r, "legacy", "file")
  /\ UNCHANGED wellFormed
  /\ tokenFrame

\* any other path or method (line 203)
TronNotFound(r) ==
  /\ variant = "tronapp"
  /\ Arrives(r)
  /\ kind' = [kind EXCEPT ![r] = "other"]
  /\ Respond(r, 404, "error")
  /\ UNCHANGED wellFormed
  /\ tokenFrame

\* GET /search up to the /subtitles call (line 94-117); valid says that the
\* query parameter is not empty
OsSearch(r, valid) ==
  /\ variant = "oswork"
  /\ Arrives(r)
  /\ wellFormed' = [wellFormed EXCEPT ![r] = valid]
  /\ Forward(r, "search", "search")
  /\ tokenFrame

\* the /subtitles call is answered (line 119-123)
OsSearchReply(r, outcome) ==
  /\ variant = "oswork"
  /\ pc[r] = "search"
  /\ CASE outcome = "ok" -> Respond(r, 200, "data")
       [] outcome = "error" -> Respond(r, UpStatus(outcome), "message")
       [] OTHER -> Respond(r, 500, "message")
  /\ UNCHANGED <<kind, wellFormed>>
  /\ tokenFrame

RoutesNext ==
  \/ \E r \in Reqs : NodeSubtitles(r)
  \/ \E r \in Reqs, o \in SearchOutcomes : NodeSubtitlesReply(r, o)
  \/ \E r \in Reqs : NodeNotFound(r)
  \/ \E r \in Reqs, valid \in BOOLEAN : TronSearch(r, valid)
  \/ \E r \in Reqs, o \in SearchOutcomes : TronSearchReply(r, o)
  \/ \E r \in Reqs : TronLegacy(r)
  \/ \E r \in Reqs : TronNotFound(r)
  \/ \E r \in Reqs, valid \in BOOLEAN : OsSearch(r, valid)
  \/ \E r \in Reqs, o \in SearchOutcomes : OsSearchReply(r, o)

\* the clock of the all-routes system advances by one step size per variant
ShortSteps == IF variant = "node" THEN {LOGIN_SPACING_MS \div 2} ELSE TickSteps

\* every route of the three programs
NextRoutes ==
  \/ \E d \in ShortSteps : Tick(d)
  \/ NodeNext
  \/ TronNext
  \/ OsNext
  \/ RoutesNext

SpecRoutes == Init /\ [][NextRoutes]_vars

\* The Node server with clients that may close their connection while their
\* request waits for a login; the clock advances by half the login spacing.
InitAbort == Init /\ variant = "node"

NextAbort ==
  \/ Tick(LOGIN_SPACING_MS \div 2)
  \/ \E r \in Reqs : Abort(r)
  \/ NodeNext

SpecAbort == InitAbort /\ [][NextAbort]_vars

\* The Node server under the assumption that every timer and every upstream
\* call completes; the clock advances as far as a pending timer needs.

\* the clock reaches the wake time of the spacing timer of login operation k
\* (line 114: setTimeout(r, 1100 - delta))
TimerElapses(k) ==
  /\ variant = "node"
  /\ k \in 1..Len(logins)
  /\ logins[k].phase = "spacing"
  /\ now < logins[k].wakeAt
  /\ now' = logins[k].wakeAt
  /\ UNCHANGED <<variant, hasCreds, ticks, cachedToken, nodeState, workerState,
                 logins, pc, kind, token, tokSrc, joined, loginErr, dlCalls,
                 first401, settledAt401, loginNow, resp, acquiredAt, clientState,
                 upCalls>>

InitLive == Init /\ variant = "node"

NextLive ==
  \/ \E k \in 1..Len(logins) : TimerElapses(k)
  \/ NodeNext

\* no more login operations than two per request (line 177, line 190)
MaxLogins == 2 * NumReqs

\* every spacing timer runs out and fires, every /login, /download and file
\* call is answered; requests arrive or not as the clients please
Completes ==
  /\ \A k \in 1..MaxLogins :
       /\ WF_vars(TimerElapses(k))
       /\ WF_vars(SpacingTimer(k))
       /\ WF_vars(\E o \in LoginOutcomes : LoginReply(k, o))
  /\ \A r \in Reqs :
       /\ WF_vars(\E o \in DownloadOutcomes : NodeDownloadReply(r, o))
       /\ WF_vars(\E o \in FileOutcomes : NodeFileReply(r, o))

SpecLive == InitLive /\ [][NextLive]_vars /\ Completes

\* ================================================================= claims
IsNode == variant = "node"
IsWorker == variant \in {"tronapp", "oswork"}
Unsettled == {k \in 1..Len(logins) : logins[k].phase \in {"spacing", "fetch"}}
Called == {k \in 1..Len(logins) : logins[k].phase # "spacing"}
FailedResults == {"rejected", "notoken", "neterr"}
Err500 == [status |-> 500, body |-> "error"]

\* C1: in the Node server at most one login operation is pending, and so at
\* most one /login network call is outstanding, in every reachable state.
C1_OneLoginOutstanding ==
  IsNode => Cardinality(Outstanding) <= 1 /\ Cardinality(Unsettled) <= 1

\* C1 witness: a second login (after a 401) is on the wire while both requests
\* wait for it.
C1_Witness ==
  /\ IsNode
  /\ Len(logins) = 2
  /\ logins[2].phase = "fetch"
  /\ \A r \in Reqs : pc[r] = "awaitLogin" /\ joined[r] = 2

\* C2: in the Node server all callers that wait for a login wait for the same
\* login operation, and every caller of a settled login got its outcome: its
\* token when it succeeded, its error (answered 500) when it failed.
C2_SharedOutcome ==
  IsNode =>
    /\ \A r, q \in Reqs :
         pc[r] = "awaitLogin" /\ pc[q] = "awaitLogin" => joined[r] = joined[q]
    /\ \A r \in Reqs :
         /\ pc[r] = "awaitLogin" => joined[r] \in Unsettled
         /\ joined[r] # 0 /\ logins[joined[r]].result = "ok" =>
              token[r] = joined[r] /\ tokSrc[r] = "login"
         /\ joined[r] # 0 /\ logins[joined[r]].result \in FailedResults =>
              pc[r] = "done" /\ loginErr[r] = joined[r] /\ resp[r] = Err500

\* C2 witness: every request joined the first login and holds its token.
C2_Witness ==
  /\ IsNode
  /\ Len(logins) = 1
  /\ logins[1].result = "ok"
  /\ \A r \in Reqs : joined[r] = 1 /\ token[r] = 1 /\ pc[r] = "download"

\* C3: in the Node server any two /login network calls start at least
\* LOGIN_SPACING_MS apart.
C3_LoginSpacing ==
  IsNode =>
    \A j, k \in Called :
      j < k => logins[k].callAt - logins[j].callAt >= LOGIN_SPACING_MS

\* C3 witness: a re-login caused by a 401 went out exactly LOGIN_SPACING_MS
\* after the previous login call.
C3_Witness ==
  /\ IsNode
  /\ Len(logins) >= 2
  /\ 2 \in Called
  /\ logins[2].callAt - logins[1].callAt = LOGIN_SPACING_MS
  /\ \E r \in Reqs : first401[r] /\ joined[r] = 2

\* C4 as stated: in the Node server a 401 on /download clears the cache and
\* triggers exactly one retry, sent with the token of a login that completed
\* after the 401; a request never issues more than two /download calls.
C4_Original ==
  IsNode =>
    \A r \in Reqs :
      /\ dlCalls[r] <= 2
      /\ first401[r] /\ pc[r] = "awaitLogin" =>
           cachedToken = NoToken /\ tokenSetAtMs = 0
      /\ first401[r] /\ pc[r] = "done" => dlCalls[r] = 2
      /\ dlCalls[r] = 2 =>
           /\ first401[r]
           /\ tokSrc[r] = "login"
           /\ token[r] \notin settledAt401[r]

\* C4 amended: in the Node server a 401 on the first /download call clears the
\* cache and triggers exactly one re-login; when that login yields a token
\* the /download call is retried exactly once with it (a login that settled
\* after the 401, never the cache); when that login fails the request is
\* answered 500 without a retry; a request never issues more than two
\* /download calls.
C4_RetryOnce ==
  IsNode =>
    \A r \in Reqs :
      /\ dlCalls[r] <= 2
      /\ first401[r] /\ pc[r] = "awaitLogin" =>
           cachedToken = NoToken /\ tokenSetAtMs = 0
      /\ first401[r] /\ pc[r] = "done" =>
           \/ dlCalls[r] = 2
           \/ /\ dlCalls[r] = 1
              /\ loginErr[r] # 0
              /\ loginErr[r] \notin settledAt401[r]
              /\ resp[r] = Err500
      /\ dlCalls[r] = 2 =>
           /\ first401[r]
           /\ tokSrc[r] = "login"
           /\ token[r] \notin settledAt401[r]
           /\ logins[token[r]].result = "ok"

\* C4 witness: a retry is on the wire with the token of the re-login.
C4_Witness ==
  /\ IsNode
  /\ \E r \in Reqs :
       /\ pc[r] = "retry"
       /\ dlCalls[r] = 2
       /\ token[r] = 2
       /\ settledAt401[r] = {1}

\* C5 as stated: in the Node server, when the retry after a 401 fails too, the
\* request completes with no cached token left.
C5_ClearedAfterFailedRetry ==
  [][IsNode =>
       \A r \in Reqs :
         pc[r] = "retry" /\ pc'[r] = "done" => cachedToken' = NoToken]_vars

\* the per-variant validity test of the cached token
CacheValid ==
  /\ cachedToken # NoToken
  /\ CASE variant = "node" -> now - tokenSetAtMs < TOKEN_MAX_AGE_MS
       [] variant = "tronapp" -> cachedTokenExpMs - now > TRON_MARGIN_MS
       [] OTHER -> tokenExpMs - now > OS_MARGIN_MS

\* C6: in every variant a token request made while the cached token is within
\* its validity window returns the cached token, starts no login and leaves
\* the token state unchanged.
C6_CachedTokenReused ==
  [][\A r \in Reqs :
       pc[r] = "idle" /\ pc'[r] # "idle" /\ resp'[r].status # 400 /\ CacheValid =>
         /\ pc'[r] = "download"
         /\ token'[r] = cachedToken
         /\ tokSrc'[r] = "cache"
         /\ logins' = logins
         /\ UNCHANGED <<cachedToken, nodeState, workerState>>]_vars

\* C6 witness: a /download call is on the wire with a token taken from the cache.
C6_Witness ==
  \E r \in Reqs : pc[r] = "download" /\ tokSrc[r] = "cache" /\ token[r] = cachedToken

\* C7 as stated: in the worker variants at most one /login network call is
\* outstanding at any time.
C7_WorkersOneLogin == IsWorker => Cardinality(Outstanding) <= 1

\* C8 as stated: in the worker variants a /download reply with status 401
\* clears the cached token.
C8_Workers401Clears ==
  [][IsWorker =>
       \A r \in Reqs :
         pc[r] = "download" /\ pc'[r] # "download" /\ first401'[r] =>
           cachedToken' = NoToken]_vars

\* C9: in the Node server a failed login throws its error to every caller
\* awaiting it (answered 500, no token handed out), leaves cachedToken and
\* tokenSetAtMs as they were, and leaves no valid token in the cache.
C9_FailedLogin ==
  [][IsNode =>
       \A k \in 1..Len(logins) :
         logins[k].phase = "fetch" /\ logins'[k].result \in FailedResults =>
           /\ UNCHANGED <<cachedToken, tokenSetAtMs>>
           /\ ~CacheValid'
           /\ \A r \in Reqs :
                pc[r] = "awaitLogin" /\ joined[r] = k =>
                  /\ pc'[r] = "done"
                  /\ resp'[r] = Err500
                  /\ loginErr'[r] = k
                  /\ token'[r] = token[r]]_vars

\* C9 witness: a login failed and its error answered every request.
C9_Witness ==
  /\ IsNode
  /\ \E k \in 1..Len(logins) :
       /\ logins[k].result \in {"rejected", "notoken"}
       /\ \A r \in Reqs : loginErr[r] = k /\ resp[r] = Err500

\* C10: in the Node server lastLoginAtMs is the start time of the latest
\* /login network call, whatever its outcome, and a /login call that follows
\* a failed one starts at least LOGIN_SPACING_MS after it.
C10_AttemptStamped ==
  IsNode =>
    /\ \A k \in Called :
         (\A j \in Called : j <= k) => lastLoginAtMs = logins[k].callAt
    /\ \A j, k \in Called :
         j < k /\ logins[j].phase = "failed" =>
           logins[k].callAt >= logins[j].callAt + LOGIN_SPACING_MS

\* C10 witness: a login call went out LOGIN_SPACING_MS after a failed one.
C10_Witness ==
  /\ IsNode
  /\ \E j, k \in Called :
       /\ j < k
       /\ logins[j].phase = "failed"
       /\ logins[k].callAt = logins[j].callAt + LOGIN_SPACING_MS
       /\ lastLoginAtMs = logins[k].callAt


\* C19: in the Node server loginInFlight is non-null exactly while a login
\* operation is running (sleeping or calling /login), and then it names that
\* operation; once the operation settles, by success or failure, it is null.
C19_InFlightWhileRunning ==
  IsNode =>
    /\ loginInFlight # 0 <=> Unsettled # {}
    /\ loginInFlight # 0 => loginInFlight \in Unsettled

\* C19 witness: after a failed login a later caller started a new one, which
\* is sleeping out the spacing delay.
C19_Witness ==
  /\ IsNode
  /\ Len(logins) = 2
  /\ logins[1].phase = "failed"
  /\ logins[2].phase = "spacing"
  /\ loginInFlight = 2

\* the step in which request r sees the 401 of its first /download call
Sees401(r) == pc[r] = "download" /\ ~first401[r] /\ first401'[r]

\* C13 as stated: in the Node server cachedToken / tokenSetAtMs are written
\* only by a login that succeeds and by the 401 path, and the 401 path never
\* runs while a login is in flight.
C13_WritesSerialized ==
  [][IsNode =>
       /\ \A r \in Reqs : Sees401(r) => loginInFlight = 0
       /\ <<cachedToken, tokenSetAtMs>>' # <<cachedToken, tokenSetAtMs>> =>
            \/ \E k \in 1..Len(logins) :
                 logins[k].phase = "fetch" /\ logins'[k].phase = "ok"
            \/ \E r \in Reqs : Sees401(r)]_vars

\* C20 as stated: in the Node server, when a /download call is answered 401
\* and the cache holds a token newer than the one the call was sent with, the
\* invalidation leaves that token in the cache and no further login starts.
C20_ClearsOnlyRejectedToken ==
  [][IsNode =>
       \A r \in Reqs :
         Sees401(r) /\ cachedToken > token[r] =>
           cachedToken' = cachedToken /\ logins' = logins]_vars

NodeOrTron == variant \in {"node", "tronapp"}

\* a step in which request r arrives with usable parameters on a route that
\* needs a token
AsksToken(r) ==
  /\ pc[r] = "idle"
  /\ pc'[r] # "idle"
  /\ kind'[r] \in {"download", "download-file"}
  /\ wellFormed'[r]

\* C15: in the Node server and the tronapp worker a download request that
\* needs a token while no valid token is cached and the credentials are not
\* configured is answered with an error at once: no /login call is made, the
\* token state stays as it was, and the request makes no upstream call at all.
C15_MissingCreds ==
  [][NodeOrTron =>
       \A r \in Reqs :
         AsksToken(r) /\ ~hasCreds /\ ~CacheValid =>
           /\ pc'[r] = "done"
           /\ resp'[r] = Err500
           /\ logins' = logins
           /\ UNCHANGED <<cachedToken, nodeState, workerState>>
           /\ dlCalls'[r] = 0]_vars

\* C15 witness: without credentials every download request of the Node server
\* or the tronapp worker ended in an error and no /login call was ever made.
C15_Witness ==
  /\ NodeOrTron
  /\ ~hasCreds
  /\ logins = <<>>
  /\ \A r \in Reqs : pc[r] = "done" /\ wellFormed[r] /\ resp[r] = Err500 /\ dlCalls[r] = 0


\* the validity window of a token: 8 hours (Node), 10 minutes (tronapp)
ValidityWindow == IF IsNode THEN TOKEN_MAX_AGE_MS ELSE TRON_CACHE_MS

\* a step that hands request r a token: its /download call goes out with it
Returned(r) == dlCalls'[r] = dlCalls[r] + 1

\* C11: in the Node server and the tronapp worker, every token handed to a
\* request was received from /login less than one validity window earlier;
\* a download request that arrives when the cached token is one window old
\* or older is not handed that token: it starts a login or joins the one in
\* flight.
C11_ExpiredIsAbsent ==
  [][NodeOrTron =>
       \A r \in Reqs :
         /\ Returned(r) => now - acquiredAt' < ValidityWindow
         /\ /\ AsksToken(r)
            /\ cachedToken # NoToken
            /\ now - acquiredAt >= ValidityWindow
            => /\ ~Returned(r)
               /\ pc'[r] \in {"awaitLogin", "login"}
               /\ joined'[r] # joined[r]
               /\ logins'[joined'[r]].result = "pending"
               /\ \/ Len(logins') = Len(logins) + 1
                  \/ loginInFlight = joined'[r]]_vars

\* C11 witness: the cache holds a token that is one validity window old and a
\* request that arrived after the token expired waits for a new login.
C11_Witness ==
  /\ NodeOrTron
  /\ cachedToken # NoToken
  /\ now - acquiredAt >= ValidityWindow
  /\ \E r \in Reqs : pc[r] \in {"awaitLogin", "login"} /\ joined[r] > cachedToken


\* login operation k has a caller whose client has gone
AbortedCaller(k) == \E r \in Reqs : aborted[r] /\ joined[r] = k

\* C12: in the Node server the abort of a request that waits for a login
\* changes nothing of the login operation or of the token state; when that
\* login settles, loginInFlight is cleared, on success its token is stored in
\* the cache and handed to every other waiter, and a later request that finds
\* the token valid in the cache is served with it.
C12_AbortKeepsLogin ==
  [][IsNode =>
       /\ (\E r \in Reqs : ~aborted[r] /\ aborted'[r]) =>
            UNCHANGED <<logins, loginInFlight, cachedToken, tokenSetAtMs,
                        lastLoginAtMs, pc, joined>>
       /\ \A k \in 1..Len(logins) :
            AbortedCaller(k) /\ logins[k].phase = "fetch" /\ logins'[k].phase # "fetch" =>
              /\ loginInFlight' = 0
              /\ logins'[k].result = "ok" =>
                   /\ cachedToken' = k
                   /\ tokenSetAtMs' = now
                   /\ \A q \in Reqs :
                        pc[q] = "awaitLogin" /\ joined[q] = k =>
                          token'[q] = k /\ pc'[q] \in {"download", "retry"}
       /\ \A q \in Reqs :
            /\ AsksToken(q)
            /\ cachedToken # NoToken
            /\ AbortedCaller(cachedToken)
            /\ CacheValid
            => token'[q] = cachedToken /\ pc'[q] = "download"]_vars

\* C12 witness: the only caller of a login was aborted while the /login call
\* was pending; the login succeeded, its token is cached, loginInFlight is
\* clear and the next request was served with that token from the cache.
C12_Witness ==
  /\ IsNode
  /\ loginInFlight = 0
  /\ \E r, q \in Reqs :
       /\ aborted[r]
       /\ joined[r] = 1
       /\ logins[1].result = "ok"
       /\ cachedToken = 1
       /\ ~aborted[q]
       /\ joined[q] = 0
       /\ token[q] = 1
       /\ tokSrc[q] = "cache"


\* C14 as stated: no request of the Node server or of the tronapp worker
\* waits for more than two upstream calls one after the other.
C14_Original == NodeOrTron => \A r \in Reqs : upCalls[r] <= 2

\* the longest chain of upstream calls the code allows one request, by the
\* call it waits for: login, /download, login again, /download again, the
\* file (Node server); login, /download, the file (tronapp worker); one call
\* on the routes that need no token
MaxChain(stage) ==
  CASE stage \in {"awaitLogin", "login"} -> IF IsNode THEN 3 ELSE 1
    [] stage \in {"download", "retry"} -> IF IsNode THEN 4 ELSE 2
    [] stage = "file" -> IF IsNode THEN 5 ELSE 3
    [] stage = "search" -> 1
    [] OTHER -> 0

\* C14 amended: a request of the Node server waits for at most five upstream
\* calls one after the other (login, /download, login, /download, file), a
\* request of the tronapp worker for at most three (login, /download, file),
\* and none makes more than two /download calls.
C14_ChainBounded ==
  NodeOrTron => \A r \in Reqs : upCalls[r] <= MaxChain(pc[r]) /\ dlCalls[r] <= 2

\* C14 witness: a request of the Node server fetches the file after two
\* logins and two /download calls.
C14_Witness ==
  /\ IsNode
  /\ \E r \in Reqs : pc[r] = "file" /\ upCalls[r] = 5 /\ dlCalls[r] = 2


\* a step of the search request r
SearchStep(r) == kind'[r] = "search" /\ pc'[r] # pc[r]

\* C16: in every variant a step of a search request makes no /login call and
\* leaves the token cache, loginInFlight and lastLoginAtMs as they were; a
\* search request whose parameters are accepted is forwarded to the upstream
\* whether or not the credentials are configured, and a successful answer is
\* returned to the client.
C16_SearchFrame ==
  [][\A r \in Reqs :
       SearchStep(r) =>
         /\ logins' = logins
         /\ UNCHANGED <<cachedToken, nodeState, workerState, acquiredAt>>
         /\ token'[r] = NoToken
         /\ pc[r] = "idle" =>
              \/ pc'[r] = "search"
              \/ variant = "tronapp" /\ ~wellFormed'[r] /\ resp'[r].status = 400
         /\ pc[r] = "search" =>
              resp'[r].status = 200 \/ resp'[r].body \in {"error", "message", "data"}]_vars

\* C16 witness: a search was served although no credentials are configured.
C16_Witness ==
  /\ ~hasCreds
  /\ \E r \in Reqs :
       kind[r] = "search" /\ pc[r] = "done" /\ resp[r] = [status |-> 200, body |-> "data"]


\* C17 as stated: in both worker variants a search request with an empty
\* query is answered with a 4xx status at once, without an upstream call.
C17_EmptyQueryRejected ==
  [][IsWorker =>
       \A r \in Reqs :
         pc[r] = "idle" /\ kind'[r] = "search" /\ ~wellFormed'[r] =>
           /\ pc'[r] = "done"
           /\ resp'[r].status \in 400..499]_vars

\* C18 as stated: in the Node server and the tronapp worker every response
\* that reports a failure is a JSON body with an error or message field.
C18_FailuresAreJsonErrors ==
  NodeOrTron =>
    \A r \in Reqs :
      pc[r] = "done" /\ resp[r].status # 200 => resp[r].body \in {"error", "message"}


\* the handler of request r is running
Running(r) == pc[r] \notin {"idle", "done"}

\* C21: in the Node server, when every timer and every upstream call
\* completes, every download request that has arrived is answered, and a
\* request that was answered keeps the one response it got.
C21_EveryRequestAnswered ==
  /\ \A r \in Reqs : Running(r) ~> (pc[r] = "done" /\ resp[r].status # 0)
  /\ [][\A r \in Reqs :
          /\ pc[r] = "done" => pc'[r] = "done" /\ resp'[r] = resp[r]
          /\ resp[r].status = 0 /\ resp'[r].status # 0 => pc'[r] = "done"]_vars

\* C21 witness: one request was answered 500 after the login it waited for
\* failed, another one got its file after a 401 and a second login that had
\* to wait for the login spacing.
C21_Witness ==
  /\ IsNode
  /\ \E r, q \in Reqs :
       /\ pc[r] = "done" /\ loginErr[r] # 0 /\ resp[r] = Err500
       /\ pc[q] = "done" /\ first401[q] /\ resp[q].status = 200
       /\ joined[q] > 1
       /\ logins[joined[q]].callAt >= logins[joined[q] - 1].callAt + LOGIN_SPACING_MS

====
